---- MODULE Spec2Model ----
(***************************************************************************)
(* A model of filelock's vendored deadline primitive                       *)
(* (src/filelock/vendor/async_timeout.py, class Timeout) together with the *)
(* parts of the asyncio event loop and of the work unit (the task) that it *)
(* talks to, and of the lock acquisition protocol of the specification.    *)
(***************************************************************************)
EXTENDS Integers, FiniteSets, Sequences, TLC

\* ------------------------------------------------------------------ bounds
\* The loop clock runs over 0..MaxTime; deadlines are drawn from the same range.
MaxTime == 2
\* Identities available for asyncio.Handle objects that are alive at one time.
MaxHandles == 3
\* How many times a party other than the deadline callback calls task.cancel().
MaxCancels == 1
\* The counts of callback runs and of firings saturate here (MaxRuns or more).
MaxRuns == 2

\* ----------------------------------------------------------- Python values
\* An Optional value is a set with at most one element: None is the empty set.
None == {}
Some(x) == {x}
Get(o) == CHOOSE x \in o : TRUE

\* _State (enum)
INIT == "INIT"
ENTER == "ENTER"
TIMEOUT == "TIMEOUT"
EXIT == "EXIT"
States == {INIT, ENTER, TIMEOUT, EXIT}

Times == 0..MaxTime
Deadlines == {None} \cup {Some(d) : d \in Times}
HandleIds == 1..MaxHandles
\* What asyncio.current_task() returns: the work unit "T" when the call is made
\* from inside it, "None" when it is made outside any task (a loop callback).
CurrentTasks == {"T", "None"}
\* exc_type as __aexit__ receives it.
ExcTypes == {"None", "CancelledError", "OtherError"}
Deltas == {-1, 1}

\* The largest acquisition depth an instance is driven to.
MaxDepth == 2
\* Acquire calls of one instance that wait in the retry loop at one time.
MaxWaiters == 1
\* Lock instances on one canonical path: A and B live in one process, C in another.
Locks == {"A", "B", "C"}
Proc(i) == IF i = "C" THEN "p2" ELSE "p1"
FailureKinds == {"Timeout", "PlatformError", "Cancelled"}

VARIABLES
    state,            \* Timeout._state
    deadline,         \* Timeout._deadline (Optional)
    task,             \* Timeout._task: "None" or the task the deadline will cancel
    timeout_handler,  \* Timeout._timeout_handler (Optional handle identity)
    scheduled,        \* the loop's handles that are neither cancelled nor run
    now,              \* loop.time()
    scope,            \* the with statement around the primitive: none, open, closed
    cancelBy,         \* who has an undelivered task.cancel() on the work unit
    numCancels,       \* Task._num_cancels_requested of the work unit
    py311,            \* sys.version_info >= (3, 11)
    lastOp,           \* the last step taken and what it raised
    runs,             \* history: how often the loop has run _on_timeout
    fires,            \* history: how often _on_timeout has cancelled the target
    rejected,         \* history: phase of the last reject() no update() followed
    outside,          \* history: enter/update/shift was called outside any task
    exitRaised,       \* history: the exit of the scope raised the timeout
    depth,            \* lock instances: acquisition depth
    handle,           \* lock instances: open OS handle (Optional)
    osHolders,        \* the instances whose handle holds the OS lock on the path
    waiting,          \* lock instances: acquire calls suspended in the retry loop
    lastLock          \* the last lock step, its outcome and its backend call

tvars == <<state, deadline, task, timeout_handler, scheduled, now, scope,
           cancelBy, numCancels, py311, lastOp,
           runs, fires, rejected, outside, exitRaised>>
lvars == <<depth, handle, osHolders, waiting, lastLock>>
vars == <<tvars, lvars>>

\* ------------------------------------------------------------- event loop
\* asyncio.Handle.cancel(): the loop will not run the handle; cancelling a handle
\* that was cancelled or has run changes nothing.
CancelHandle(sch, id) == {h \in sch : h.id /= id}

\* Cancel the handle an Optional refers to, if any.
CancelIfSet(sch, h) == IF h /= None THEN CancelHandle(sch, Get(h)) ELSE sch

\* loop.call_soon(cb): the handle is put on the ready queue, which the loop runs
\* on its next iteration.
CallSoon(id) == [id |-> id, soon |-> TRUE, at |-> now]

\* loop.call_at(when, cb): the handle becomes ready once loop.time() >= when.
CallAt(id, when) == [id |-> id, soon |-> FALSE, at |-> when]

\* A handle the loop may run in its next iteration.
Due(h) == h.soon \/ h.at <= now

\* Identities a newly created Handle can take: not that of a handle the loop
\* still holds, nor that of the handle the primitive still refers to.
FreshIds(sch, h) == {i \in HandleIds : i \notin {x.id : x \in sch} /\ Some(i) /= h}

\* --------------------------------------------------------------- Timeout
\* A history count, saturating at MaxRuns.
Bump(n) == IF n < MaxRuns THEN n + 1 ELSE n

\* Whether a call made with current task cur is (or an earlier one was) made
\* outside any task.
CalledOutside(cur) == outside \/ cur = "None"

\* _reject that keeps the target.
RejectKeepsTask(h, sch) ==
    [task |-> task, handler |-> None, scheduled |-> CancelIfSet(sch, h)]

\* _reject without the cancel() of the scheduled handle.
RejectNoCancel(h, sch) == [task |-> "None", handler |-> None, scheduled |-> sch]

\* Timeout._reject: drop the target and cancel the scheduled firing, if any.
Reject_(h, sch) ==
    [task |-> "None", handler |-> None, scheduled |-> CancelIfSet(sch, h)]

\* The branch of _reschedule: call_soon when the deadline has passed, else call_at.
ScheduleHandle(id, dl) == IF dl <= now THEN CallSoon(id) ELSE CallAt(id, dl)

\* _reschedule that does not store the current task.
RescheduleKeepsTask(dl, t, h, sch, cur, id) ==
    IF dl = None
    THEN [task |-> t, handler |-> h, scheduled |-> sch]
    ELSE [task |-> t,
          handler |-> Some(id),
          scheduled |-> CancelIfSet(sch, h) \cup {ScheduleHandle(id, Get(dl))}]

\* _reschedule that takes an absent deadline for one that has passed.
RescheduleNoneIsPast(dl, t, h, sch, cur, id) ==
    [task |-> cur,
     handler |-> Some(id),
     scheduled |-> CancelIfSet(sch, h)
                   \cup {IF dl = None THEN CallSoon(id) ELSE ScheduleHandle(id, Get(dl))}]

\* Timeout._reschedule with deadline dl, from a caller whose current task is cur,
\* creating the handle id.
Reschedule(dl, t, h, sch, cur, id) ==
    IF dl = None
    THEN [task |-> t, handler |-> h, scheduled |-> sch]
    ELSE [task |-> cur,
          handler |-> Some(id),
          scheduled |-> CancelIfSet(sch, h) \cup {ScheduleHandle(id, Get(dl))}]

\* _do_enter that lets a primitive be entered again after its exit.
EnterAllowedReuse(st) == st \in {INIT, EXIT}

\* _do_enter without its state check.
EnterAlways(st) == TRUE

\* The guard of Timeout._do_enter.
EnterAllowed(st) == st = INIT

\* Timeout.__aenter__ / __enter__ / _do_enter, called by a with statement.
Enter(cur) ==
    /\ IF EnterAllowed(state)
       THEN \E id \in FreshIds(scheduled, timeout_handler) :
              LET r == Reschedule(deadline, task, timeout_handler, scheduled, cur, id)
              IN /\ state' = ENTER
                 /\ task' = r.task
                 /\ timeout_handler' = r.handler
                 /\ scheduled' = r.scheduled
                 /\ scope' = "open"
                 /\ lastOp' = [op |-> "enter", raised |-> "none", exc |-> "None"]
       ELSE /\ lastOp' = [op |-> "enter", raised |-> "RuntimeError", exc |-> "None"]
            /\ UNCHANGED <<state, task, timeout_handler, scheduled, scope>>
    /\ outside' = CalledOutside(cur)
    /\ UNCHANGED <<deadline, now, cancelBy, numCancels, py311, lvars,
                   runs, fires, rejected, exitRaised>>

\* The assertion that opens Timeout._reschedule.
RescheduleAssert(st) == st = ENTER

\* update that refuses only a primitive that has exited.
UpdateAllowedFired(st) == st /= EXIT

\* The two guards of Timeout.update.
UpdateAllowed(st) == st /= EXIT /\ st /= TIMEOUT

\* Timeout.update(d), reached directly (op = "update") or through shift.
DoUpdate(d, cur, op) ==
    /\ IF UpdateAllowed(state)
       THEN \E id \in FreshIds(scheduled, timeout_handler) :
              LET sch1 == CancelIfSet(scheduled, timeout_handler)
                  asserted == state = INIT \/ RescheduleAssert(state)
                  r == IF state /= INIT /\ asserted
                       THEN Reschedule(Some(d), task, timeout_handler, sch1, cur, id)
                       ELSE [task |-> task, handler |-> timeout_handler,
                             scheduled |-> sch1]
              IN /\ deadline' = Some(d)
                 /\ task' = r.task
                 /\ timeout_handler' = r.handler
                 /\ scheduled' = r.scheduled
                 /\ rejected' = "no"
                 /\ lastOp' = [op |-> op,
                                raised |-> IF asserted THEN "none" ELSE "AssertionError",
                                exc |-> "None"]
       ELSE /\ lastOp' = [op |-> op, raised |-> "RuntimeError", exc |-> "None"]
            /\ UNCHANGED <<deadline, task, timeout_handler, scheduled, rejected>>
    /\ outside' = CalledOutside(cur)
    /\ UNCHANGED <<state, now, scope, cancelBy, numCancels, py311, lvars,
                   runs, fires, exitRaised>>

\* Timeout.update(deadline)
Update(d, cur) == DoUpdate(d, cur, "update")

\* shift that takes its argument for the new deadline.
ShiftTargetAbsolute(dl, delta) == delta

\* The deadline Timeout.shift hands to update.
ShiftTarget(dl, delta) == dl + delta

\* Timeout.shift(delay)
Shift(delta, cur) ==
    IF deadline = None
    THEN /\ lastOp' = [op |-> "shift", raised |-> "RuntimeError", exc |-> "None"]
         /\ outside' = CalledOutside(cur)
         /\ UNCHANGED <<state, deadline, task, timeout_handler, scheduled, now,
                        scope, cancelBy, numCancels, py311, lvars,
                        runs, fires, rejected, exitRaised>>
    ELSE /\ ShiftTarget(Get(deadline), delta) \in Times
         /\ DoUpdate(ShiftTarget(Get(deadline), delta), cur, "shift")

\* reject without its state check.
RejectAlways(st) == TRUE

\* The guard of Timeout.reject.
RejectAllowed(st) == st \in {INIT, ENTER}

\* Timeout.reject()
Reject ==
    /\ IF RejectAllowed(state)
       THEN LET r == Reject_(timeout_handler, scheduled)
            IN /\ task' = r.task
               /\ timeout_handler' = r.handler
               /\ scheduled' = r.scheduled
               /\ rejected' = IF state = INIT THEN "init" ELSE "armed"
               /\ lastOp' = [op |-> "reject", raised |-> "none", exc |-> "None"]
       ELSE /\ lastOp' = [op |-> "reject", raised |-> "RuntimeError", exc |-> "None"]
            /\ UNCHANGED <<task, timeout_handler, scheduled, rejected>>
    /\ UNCHANGED <<state, deadline, now, scope, cancelBy, numCancels, py311, lvars,
                   runs, fires, outside, exitRaised>>

\* _do_exit that reports every observed cancellation as a timeout.
ExitRaisesOnCancel(exc, st) == exc = "CancelledError"

\* The test of Timeout._do_exit that turns a cancellation into a timeout.
ExitRaisesTimeout(exc, st) == exc = "CancelledError" /\ st = TIMEOUT

\* _uncancel_task: Task.uncancel() from Python 3.11 on, nothing before.
Uncancel(n) == IF py311 /\ n > 0 THEN n - 1 ELSE n

\* Timeout.__aexit__ / __exit__ / _do_exit: the with statement calls it once, when
\* the block it opened ends, with the type of the exception that ended it.
Exit(exc) ==
    /\ scope = "open"
    /\ scope' = "closed"
    /\ cancelBy' = IF exc = "CancelledError" THEN {} ELSE cancelBy
    /\ IF ExitRaisesTimeout(exc, state)
       THEN IF task = "None"
            THEN /\ lastOp' = [op |-> "exit", raised |-> "AssertionError", exc |-> exc]
                 /\ UNCHANGED <<state, task, timeout_handler, scheduled, numCancels>>
            ELSE /\ numCancels' = Uncancel(numCancels)
                 /\ timeout_handler' = None
                 /\ task' = "None"
                 /\ lastOp' = [op |-> "exit", raised |-> "TimeoutError", exc |-> exc]
                 /\ UNCHANGED <<state, scheduled>>
       ELSE LET r == Reject_(timeout_handler, scheduled)
            IN /\ state' = EXIT
               /\ task' = r.task
               /\ timeout_handler' = r.handler
               /\ scheduled' = r.scheduled
               /\ lastOp' = [op |-> "exit", raised |-> "none", exc |-> exc]
               /\ UNCHANGED numCancels
    /\ exitRaised' = (lastOp'.raised = "TimeoutError")
    /\ UNCHANGED <<deadline, now, py311, lvars, runs, fires, rejected, outside>>

\* The phase Timeout._on_timeout moves to.
OnTimeoutState == TIMEOUT

\* Timeout._on_timeout, run by the loop for a handle that is due.
OnTimeout(h) ==
    /\ h \in scheduled
    /\ Due(h)
    /\ scheduled' = scheduled \ {h}
    /\ runs' = Bump(runs)
    /\ fires' = IF task = "None" THEN fires ELSE Bump(fires)
    /\ IF task = "None"
       THEN /\ lastOp' = [op |-> "on_timeout", raised |-> "AssertionError", exc |-> "None"]
            /\ UNCHANGED <<state, timeout_handler, cancelBy, numCancels>>
       ELSE /\ cancelBy' = cancelBy \cup {"deadline"}
            /\ numCancels' = numCancels + 1
            /\ state' = OnTimeoutState
            /\ timeout_handler' = None
            /\ lastOp' = [op |-> "on_timeout", raised |-> "none", exc |-> "None"]
    /\ UNCHANGED <<deadline, task, now, scope, py311, lvars,
                   rejected, outside, exitRaised>>

\* A `expired` that also reports a primitive that has exited.
expiredOrExited == state \in {TIMEOUT, EXIT}

\* The `expired` property of Timeout.
expired == state = TIMEOUT

\* ---------------------------------------------------------- environment
\* The loop clock advances.
Tick ==
    /\ now < MaxTime
    /\ now' = now + 1
    /\ lastOp' = [op |-> "tick", raised |-> "none", exc |-> "None"]
    /\ UNCHANGED <<state, deadline, task, timeout_handler, scheduled, scope,
                   cancelBy, numCancels, py311, lvars,
                   runs, fires, rejected, outside, exitRaised>>

\* A party other than the deadline callback calls cancel() on the work unit
\* while it is inside the with block.
ExternalCancel ==
    /\ scope = "open"
    /\ "external" \notin cancelBy
    /\ numCancels < MaxCancels
    /\ cancelBy' = cancelBy \cup {"external"}
    /\ numCancels' = numCancels + 1
    /\ lastOp' = [op |-> "cancel", raised |-> "none", exc |-> "None"]
    /\ UNCHANGED <<state, deadline, task, timeout_handler, scheduled, now, scope,
                   py311, lvars, runs, fires, rejected, outside, exitRaised>>

\* The block catches the CancelledError delivered to it and goes on.
BodySwallow ==
    /\ scope = "open"
    /\ cancelBy /= {}
    /\ cancelBy' = {}
    /\ lastOp' = [op |-> "swallow", raised |-> "none", exc |-> "None"]
    /\ UNCHANGED <<state, deadline, task, timeout_handler, scheduled, now, scope,
                   numCancels, py311, lvars,
                   runs, fires, rejected, outside, exitRaised>>

\* -------------------------------------------- lock acquisition protocol
\* A backend that inherits the OS primitive's per-process reentrancy.
TryAcquireProcessReentrant(i, holders) ==
    IF \A j \in holders : Proc(j) = Proc(i) THEN "handle" ELSE "would-block"

\* Platform Backend, try_acquire_exclusive(path) for instance i: a handle when no
\* handle holds the lock on the path, would-block when one does, also one that an
\* instance of the same process holds.
TryAcquireExclusive(i, holders) == IF holders = {} THEN "handle" ELSE "would-block"

\* acquire that goes to the backend on every call.
TouchesBackendAlways(d) == TRUE

\* acquire touches the backend only when this instance holds nothing yet.
TouchesBackend(d) == d = 0

\* release that decrements without looking at depth.
DepthAfterReleaseUnclamped(d, force) == IF force THEN 0 ELSE d - 1

\* depth after a release: nothing at 0, 0 when forced, one less otherwise.
DepthAfterRelease(d, force) == IF d = 0 THEN 0 ELSE IF force THEN 0 ELSE d - 1

\* A failing acquire that keeps the increment it made for the attempt.
DepthAfterFailureKept(d) == d + 1

\* depth after an acquire call that fails or is cancelled: as before the call.
DepthAfterFailure(d) == d

\* waiting after a call leaves (w = TRUE) or does not leave the retry loop.
Leave(i, w) == IF w THEN [waiting EXCEPT ![i] = @ - 1] ELSE waiting

\* One attempt of acquire on instance i, under the instance's mutual exclusion
\* boundary: the first attempt of a call (w = FALSE) or a retry of a waiting one.
Attempt(i, w) ==
    /\ w => waiting[i] > 0
    /\ IF ~TouchesBackend(depth[i])
       THEN /\ depth[i] < MaxDepth
            /\ depth' = [depth EXCEPT ![i] = @ + 1]
            /\ waiting' = Leave(i, w)
            /\ lastLock' = [op |-> "acquire", inst |-> i, result |-> "ok",
                            backend |-> "none", force |-> FALSE]
            /\ UNCHANGED <<handle, osHolders>>
       ELSE IF TryAcquireExclusive(i, osHolders) = "handle"
            THEN /\ handle' = [handle EXCEPT ![i] = Some(i)]
                 /\ osHolders' = osHolders \cup {i}
                 /\ depth' = [depth EXCEPT ![i] = 1]
                 /\ waiting' = Leave(i, w)
                 /\ lastLock' = [op |-> "acquire", inst |-> i, result |-> "ok",
                                 backend |-> "acquired", force |-> FALSE]
            ELSE /\ w \/ waiting[i] < MaxWaiters
                 /\ waiting' = IF w THEN waiting ELSE [waiting EXCEPT ![i] = @ + 1]
                 /\ lastLock' = [op |-> "acquire", inst |-> i, result |-> "retry",
                                 backend |-> "would-block", force |-> FALSE]
                 /\ UNCHANGED <<depth, handle, osHolders>>
    /\ UNCHANGED tvars

\* An acquire call on instance i fails: its deadline passed after a would-block
\* outcome, the backend reported a fatal error, or the waiting task was cancelled.
AcquireFail(i, kind, w) ==
    /\ w => waiting[i] > 0
    /\ kind = "Cancelled" => w
    /\ kind = "Timeout" =>
         depth[i] = 0 /\ TryAcquireExclusive(i, osHolders) = "would-block"
    /\ kind = "PlatformError" => depth[i] = 0
    /\ depth' = [depth EXCEPT ![i] = DepthAfterFailure(@)]
    /\ waiting' = Leave(i, w)
    /\ lastLock' = [op |-> "acquire", inst |-> i, result |-> kind,
                    backend |-> IF kind = "Cancelled" THEN "none"
                                ELSE IF kind = "Timeout" THEN "would-block"
                                ELSE "error",
                    force |-> FALSE]
    /\ UNCHANGED <<handle, osHolders, tvars>>

\* release(force) on instance i.
Release(i, force) ==
    /\ depth' = [depth EXCEPT ![i] = DepthAfterRelease(@, force)]
    /\ IF depth[i] > 0 /\ DepthAfterRelease(depth[i], force) = 0
       THEN /\ handle' = [handle EXCEPT ![i] = None]
            /\ osHolders' = osHolders \ {i}
            /\ lastLock' = [op |-> "release", inst |-> i, result |-> "ok",
                            backend |-> "release", force |-> force]
       ELSE /\ lastLock' = [op |-> "release", inst |-> i, result |-> "ok",
                            backend |-> "none", force |-> force]
            /\ UNCHANGED <<handle, osHolders>>
    /\ UNCHANGED <<waiting, tvars>>

\* The `locked` query.
locked(i) == depth[i] > 0

\* ------------------------------------------------------- specifications
\* Timeout.__init__ (through timeout() or timeout_at()): the deadline, if given,
\* is stored by update() in phase INIT, which schedules nothing.
TimeoutInit ==
    /\ state = INIT
    /\ deadline \in Deadlines
    /\ task = "None"
    /\ timeout_handler = None
    /\ scheduled = {}
    /\ now = 0
    /\ scope = "none"
    /\ cancelBy = {}
    /\ numCancels = 0
    /\ py311 \in BOOLEAN
    /\ lastOp = [op |-> "init", raised |-> "none", exc |-> "None"]
    /\ runs = 0
    /\ fires = 0
    /\ rejected = "no"
    /\ outside = FALSE
    /\ exitRaised = FALSE

\* Lock State of every instance after construction: nothing acquired.
LockInit ==
    /\ depth = [i \in Locks |-> 0]
    /\ handle = [i \in Locks |-> None]
    /\ osHolders = {}
    /\ waiting = [i \in Locks |-> 0]
    /\ lastLock = [op |-> "init", inst |-> "A", result |-> "ok",
                   backend |-> "none", force |-> FALSE]

Init == TimeoutInit /\ LockInit

Next ==
    \/ \E cur \in CurrentTasks : Enter(cur)
    \/ \E d \in Times, cur \in CurrentTasks : Update(d, cur)
    \/ \E delta \in Deltas, cur \in CurrentTasks : Shift(delta, cur)
    \/ Reject
    \/ \E exc \in ExcTypes : Exit(exc)
    \/ \E h \in scheduled : OnTimeout(h)
    \/ Tick
    \/ ExternalCancel
    \/ BodySwallow

\* The deadline primitive, its loop and its work unit.
Spec == Init /\ [][Next]_vars

\* The loop keeps running: its clock advances and it runs every handle that stays
\* due.
FairSpec ==
    /\ Spec
    /\ WF_vars(Tick)
    /\ WF_vars(\E h \in scheduled : OnTimeout(h))

LockNext ==
    \/ \E i \in Locks, w \in BOOLEAN : Attempt(i, w)
    \/ \E i \in Locks, kind \in FailureKinds, w \in BOOLEAN : AcquireFail(i, kind, w)
    \/ \E i \in Locks, force \in BOOLEAN : Release(i, force)

\* The lock instances on one path, with a primitive that is never entered.
LockSpecInit == Init /\ deadline = None /\ py311 = FALSE

LockSpec == LockSpecInit /\ [][LockNext]_vars

\* ------------------------------------------------------------- claims
\* C1: exit raises the timeout exactly when it observed a cancellation in phase
\* TIMEOUT, and then the phase stays TIMEOUT and the target is cleared; any other
\* exit raises no timeout, moves to EXIT and leaves nothing scheduled.
C1_ExitContract ==
    [][lastOp'.op = "exit" =>
         IF lastOp'.exc = "CancelledError" /\ state = TIMEOUT
         THEN /\ lastOp'.raised = "TimeoutError"
              /\ state' = TIMEOUT
              /\ task' = "None"
         ELSE /\ lastOp'.raised = "none"
              /\ state' = EXIT
              /\ scheduled' = {}]_vars

\* An exit has turned the cancellation made by the deadline into a timeout.
C1_Witness ==
    /\ lastOp = [op |-> "exit", raised |-> "TimeoutError", exc |-> "CancelledError"]
    /\ state = TIMEOUT
    /\ task = "None"

\* C2: an exit never reports a timeout while a cancellation that another party
\* requested of the work unit is the one (or one of those) it observed.
C2_ExternalCancelNotTimeout ==
    [][lastOp'.op = "exit" /\ lastOp'.raised = "TimeoutError"
         => "external" \notin cancelBy]_vars

\* C3: an enter, or an update in phase ENTER, made from inside the work unit with
\* the deadline at or before the loop's time returns with the phase TIMEOUT and
\* the cancellation of the work unit requested.
C3_FiresImmediately ==
    [][/\ lastOp'.op \in {"enter", "update"}
       /\ lastOp'.raised = "none"
       /\ state' /= INIT
       /\ task' = "T"
       /\ deadline' /= None
       /\ Get(deadline') <= now
       => state' = TIMEOUT /\ "deadline" \in cancelBy']_vars

\* C4: in phase EXIT nothing is scheduled, the callback does not run and the
\* primitive requests no cancellation.
C4_NoLeakAfterExit ==
    /\ [](state = EXIT => scheduled = {})
    /\ [][state = EXIT =>
            lastOp'.op /= "on_timeout" /\ numCancels' = numCancels]_vars

\* The deadline passed after the scope was closed and no cancellation was ever
\* requested.
C4_Witness ==
    /\ state = EXIT
    /\ deadline /= None
    /\ Get(deadline) <= now
    /\ lastOp.op = "tick"
    /\ numCancels = 0

C6_DepthArithmetic ==
    /\ [](\A i \in Locks : depth[i] >= 0)
    /\ [][\A i \in Locks :
            /\ lastLock'.op = "acquire" /\ lastLock'.inst = i /\ lastLock'.result = "ok"
                 => depth'[i] = depth[i] + 1
            /\ lastLock'.op = "release" /\ lastLock'.inst = i /\ ~lastLock'.force
                 => depth'[i] = (IF depth[i] - 1 > 0 THEN depth[i] - 1 ELSE 0)
            /\ lastLock'.op = "release" /\ lastLock'.inst = i /\ depth[i] = 0
                 => /\ lastLock'.backend = "none"
                    /\ UNCHANGED <<depth, handle, osHolders, waiting>>]_vars

\* A release found depth 0 while another instance held the lock.
C6_Witness ==
    /\ lastLock.op = "release"
    /\ lastLock.backend = "none"
    /\ depth[lastLock.inst] = 0
    /\ \E j \in Locks : depth[j] = MaxDepth

\* C7: an acquire that fails or is cancelled leaves depth, handle and the OS lock
\* as they were.
C7_FailedAcquireFrame ==
    [][lastLock'.op = "acquire" /\ lastLock'.result \in FailureKinds
         => UNCHANGED <<depth, handle, osHolders>>]_vars

\* An acquire of an instance was cancelled in its retry loop after another call
\* on the same instance got the lock.
C7_Witness ==
    /\ lastLock.op = "acquire"
    /\ lastLock.result = "Cancelled"
    /\ locked(lastLock.inst)

\* C8: acquire calls the backend only at depth 0 and a granted handle makes depth
\* 1; release calls the backend only when it brings depth to 0, from 1 unless
\* forced; the handle is present exactly when depth > 0.
C8_BackendAtBoundaries ==
    /\ [](\A i \in Locks : (handle[i] /= None) <=> (depth[i] > 0))
    /\ [][LET i == lastLock'.inst IN
            /\ lastLock'.op = "acquire" /\ lastLock'.backend /= "none"
                 => depth[i] = 0
            /\ lastLock'.backend = "acquired" => depth'[i] = 1
            /\ lastLock'.op = "acquire" /\ depth[i] > 0
                 => lastLock'.backend = "none"
            /\ lastLock'.backend = "release"
                 => depth'[i] = 0 /\ (lastLock'.force \/ depth[i] = 1)
            /\ lastLock'.op = "release" /\ depth[i] > 1 /\ ~lastLock'.force
                 => lastLock'.backend = "none"]_vars

\* A reentrant acquire took an instance to the largest depth without a backend
\* call.
C8_Witness ==
    /\ lastLock.op = "acquire"
    /\ lastLock.result = "ok"
    /\ lastLock.backend = "none"
    /\ depth[lastLock.inst] = MaxDepth

C10_EnterOnce ==
    [][lastOp'.op = "enter" =>
         IF state = INIT
         THEN lastOp'.raised = "none" /\ state' = ENTER
         ELSE /\ lastOp'.raised = "RuntimeError"
              /\ UNCHANGED <<state, deadline, task, timeout_handler, scheduled>>]_vars

\* A primitive that was exited refused to be entered again.
C10_Witness ==
    /\ lastOp = [op |-> "enter", raised |-> "RuntimeError", exc |-> "None"]
    /\ state = EXIT

\* C11: update in phase EXIT or TIMEOUT raises and changes neither deadline,
\* phase, target nor schedule, also after the exit that raised the timeout.
C11_UpdateRefused ==
    [][lastOp'.op = "update" /\ state \in {EXIT, TIMEOUT} =>
         /\ lastOp'.raised = "RuntimeError"
         /\ UNCHANGED <<state, deadline, task, timeout_handler, scheduled>>]_vars

\* An update was refused after the exit that turned the fired deadline into a
\* timeout.
C11_Witness ==
    /\ lastOp = [op |-> "update", raised |-> "RuntimeError", exc |-> "None"]
    /\ state = TIMEOUT
    /\ exitRaised

\* C12: at most one handle is scheduled, an update or shift leaves none of the
\* handles scheduled before it and the one it schedules is for the new deadline,
\* and the loop runs the callback at most once.
C12_NoDuplicateFirings ==
    /\ [](Cardinality(scheduled) <= 1)
    /\ [](\A h \in scheduled :
             IF h.soon THEN Get(deadline) <= h.at ELSE h.at = Get(deadline))
    /\ [][lastOp'.op \in {"update", "shift"} /\ lastOp'.raised = "none" =>
            scheduled \cap scheduled' = {}]_vars
    /\ [](runs <= 1)

\* C13: while no deadline is stored (none was given and no update was made)
\* nothing is scheduled, the phase is not TIMEOUT, the callback has not run and
\* no exit has raised the timeout.
C13_NoDeadlineNeverFires ==
    deadline = None =>
        /\ scheduled = {}
        /\ timeout_handler = None
        /\ state /= TIMEOUT
        /\ runs = 0
        /\ "deadline" \notin cancelBy
        /\ ~exitRaised
        /\ lastOp.raised /= "TimeoutError"

\* A primitive without deadline was entered, its work unit was cancelled by another
\* party, and its exit passed the cancellation on when the clock had run out.
C13_Witness ==
    /\ deadline = None
    /\ state = EXIT
    /\ now = MaxTime
    /\ lastOp = [op |-> "exit", raised |-> "none", exc |-> "CancelledError"]

\* C14: reject succeeds in INIT and ENTER, where it keeps phase and deadline,
\* leaves nothing scheduled and clears target and handle; in TIMEOUT and EXIT it
\* raises and changes nothing.
C14_RejectContract ==
    [][lastOp'.op = "reject" =>
         IF state \in {INIT, ENTER}
         THEN /\ lastOp'.raised = "none"
              /\ UNCHANGED <<state, deadline>>
              /\ scheduled' = {}
              /\ task' = "None"
              /\ timeout_handler' = None
         ELSE /\ lastOp'.raised = "RuntimeError"
              /\ UNCHANGED <<state, deadline, task, timeout_handler, scheduled>>]_vars

\* A reject in phase ENTER cancelled the firing that enter had scheduled.
C14_Witness ==
    /\ lastOp = [op |-> "reject", raised |-> "none", exc |-> "None"]
    /\ rejected = "armed"
    /\ state = ENTER
    /\ deadline /= None
    /\ runs = 0
    /\ scheduled = {}

\* C15: shift raises and changes nothing without a deadline; with deadline dl it
\* does, for its delta, what update(dl + delta) does: it raises and changes nothing
\* in EXIT and TIMEOUT, stores dl + delta in INIT, and in ENTER stores it and
\* leaves exactly one handle scheduled, for dl + delta.
C15_ShiftIsUpdate ==
    [][lastOp'.op = "shift" =>
         IF deadline = None \/ state \in {EXIT, TIMEOUT}
         THEN /\ lastOp'.raised = "RuntimeError"
              /\ UNCHANGED <<state, deadline, task, timeout_handler, scheduled>>
         ELSE \E delta \in Deltas :
                LET d == Get(deadline) + delta IN
                /\ lastOp'.raised = "none"
                /\ deadline' = Some(d)
                /\ UNCHANGED state
                /\ IF state = INIT
                   THEN UNCHANGED <<task, timeout_handler, scheduled>>
                   ELSE /\ task' \in CurrentTasks
                        /\ \E id \in HandleIds :
                             /\ timeout_handler' = Some(id)
                             /\ scheduled' =
                                  {[id |-> id, soon |-> d <= now,
                                    at |-> IF d <= now THEN now ELSE d]}]_vars

\* A shift in phase ENTER moved the scheduled firing to a later deadline.
C15_Witness ==
    /\ lastOp = [op |-> "shift", raised |-> "none", exc |-> "None"]
    /\ state = ENTER
    /\ \E h \in scheduled : ~h.soon /\ h.at = Get(deadline) /\ h.at > now

\* C16: after a reject that succeeded, in INIT or in ENTER, and that no update or
\* shift followed, nothing is scheduled, the phase is not TIMEOUT and the
\* primitive has no cancellation of the work unit outstanding.
C16_RejectedNeverFires ==
    rejected /= "no" =>
        scheduled = {} /\ state /= TIMEOUT /\ "deadline" \notin cancelBy

\* C17: every scheduled firing is eventually run unless it is cancelled; a run of
\* the callback happens only once the clock has reached the stored deadline, and
\* in that one step it requests the cancellation of the target, sets TIMEOUT and
\* drops the handle.
C17_DeadlineFires ==
    /\ \A id \in HandleIds, soon \in BOOLEAN, at \in Times :
         LET h == [id |-> id, soon |-> soon, at |-> at]
         IN (h \in scheduled) ~> (h \notin scheduled)
    /\ [][lastOp'.op = "on_timeout" /\ runs' /= runs =>
            /\ deadline /= None
            /\ Get(deadline) <= now
            /\ state = ENTER
            /\ state' = TIMEOUT
            /\ "deadline" \in cancelBy'
            /\ timeout_handler' = None]_vars

\* C18: the target is set only in ENTER and TIMEOUT, and a reject that succeeds
\* and every exit leave it unset.
C18_TargetOnlyWhileArmed ==
    /\ [](task /= "None" => state \in {ENTER, TIMEOUT})
    /\ [][/\ lastOp'.op = "reject" /\ lastOp'.raised = "none" => task' = "None"
          /\ lastOp'.op = "exit" => task' = "None"]_vars

\* The deadline has fired and the target is still held.
C18_Witness == task = "T" /\ state = TIMEOUT /\ scope = "open"

\* C19: as long as every enter, update and shift was called inside a task, no
\* assertion has failed, a handle is scheduled only in phase ENTER by the step
\* that creates it, and while a handle is scheduled the target is set.
C19_AssertionsHold ==
    /\ [](~outside =>
            /\ lastOp.raised /= "AssertionError"
            /\ (scheduled /= {} => task /= "None" /\ state = ENTER))
    /\ [][~outside' /\ scheduled' \ scheduled /= {} => state' = ENTER]_vars

\* Used only inside its task, the primitive fired and its exit, finding the target
\* set, turned the cancellation into the timeout.
C19_Witness == ~outside /\ exitRaised /\ fires = 1

====
